---- MODULE Spec2Model ----
(***************************************************************************)
(* Incremental crawl-and-update engine of almg-gil/coletor_textos.         *)
(*                                                                         *)
(*   app.py          run_update / update_type_year / achar_ultimo_numero / *)
(*                   fetch_and_build_doc / fetch_html / Budget / state     *)
(*   build_index.py  main / pagina_tem_texto / fetch_doc / fetch / Budget  *)
(*                                                                         *)
(* One step of the model is one network call of the code (or the call that *)
(* is short-circuited by an exhausted budget) together with the local     *)
(* computation around it.  The remote site, transport faults, the clock    *)
(* and the loss of the state file are the environment.                     *)
(***************************************************************************)
EXTENDS Integers, Sequences, FiniteSets, TLC

(***************************************************************************)
(* Bounds of the model                                                     *)
(***************************************************************************)
MaxNum == 2          \* remote numbers 1..MaxNum may exist for a (type, year)
MaxLimite == 4       \* max_limite of achar_ultimo_numero in a run (300000 in app.py)
MaxRequests == 5     \* largest max_requests / MAX_REQ a run is started with
MaxRuns == 2         \* runs per behaviour
MaxFaults == 1       \* requests that fail (transport error, 5xx, decode error)
MaxEdits == 1        \* edits of remote pages
MaxText == 3         \* page versions 0..MaxText: 0 the shell page, 1 a short text
LookbackSteps == 1   \* bounded lookback of update_type_year (50 in app.py)
MissStreakStop == 2  \* MISS_STREAK_STOP of build_index.py (30 by default)
MaxProberLimite == 9 \* ceilings 1..MaxProberLimite of the prober specification
MaxProberBudget == 10 \* budgets 0..MaxProberBudget of the prober specification
MaxGapLimite == 6    \* numbers, ceilings and budgets of the prober over sites with gaps
MaxWindow == 3       \* largest recheck_window of the recheck specification
MaxRecheckRequests == 12 \* max_requests that covers probe, backfill and recheck
MaxDerived == 2      \* doc_ids derived per behaviour of the doc_id specification
MaxScanNum == 4      \* remote numbers 1..MaxScanNum of the scan specification
MaxScanRequests == 14 \* largest MAX_REQ of the scan specification

(***************************************************************************)
(* Program constants                                                       *)
(***************************************************************************)
ProbeRefreshDays == 7   \* timedelta(days=7)
MinLenApp == 50         \* len(texto) > 50
MinLenIndex == 80       \* len(texto) > 80
Years == <<2020>>       \* the years of a run: one year
Ano == Years[1]

TYPES == <<"LEI", "DEC">>
VERSIONS == <<"Original", "Consolidado">>
TipoSet == {TYPES[i] : i \in 1..Len(TYPES)}
VersaoSet == {VERSIONS[i] : i \in 1..Len(VERSIONS)}

NoneT == -1             \* None of a timestamp
NoHeader == 0           \* "" of an etag / last_modified, or a header not sent
RecheckWindows == {0, 1} \* recheck_window of a run (600 by default)
TickDays == {8}         \* the clock advances by more than ProbeRefreshDays
MaxNow == 8

Max2(a, b) == IF a > b THEN a ELSE b
Min2(a, b) == IF a < b THEN a ELSE b
Range(s) == {s[i] : i \in 1..Len(s)}

(***************************************************************************)
(* Budget                                                                  *)
(***************************************************************************)
ok(b) == b.used < b.max_requests

spend(b, n) == [b EXCEPT !.used = @ + n]

(***************************************************************************)
(* Pure helpers                                                            *)
(***************************************************************************)
\* str.upper() over the type codes of the model
Upper(tipo) ==
    CASE tipo = "lei" -> "LEI"
      [] tipo = "dec" -> "DEC"
      [] tipo = "Lcp" -> "LCP"
      [] OTHER -> tipo

VersaoSlugOrig(versao) == "orig"
VersaoSlug(versao) == IF versao = "Original" THEN "orig" ELSE "cons"

make_doc_id(tipo, numero, ano, versao) ==
    Upper(tipo) \o "_" \o ToString(numero) \o "_" \o ToString(ano) \o "_" \o VersaoSlug(versao)

\* make_doc_id of build_index.py
make_doc_id_index(tipo, numero, ano, versao) ==
    LET vs == IF versao = "Original" THEN "orig" ELSE "cons"
    IN Upper(tipo) \o "_" \o ToString(numero) \o "_" \o ToString(ano) \o "_" \o vs

\* sha256 of an extracted text: injective on the texts of the model
sha256_str(texto) == 1000 + 37 * texto

\* the extracted text of page version v ("" for the shell page), and its
\* length: version 1 is a text of 60 characters, the others are longer
ExtractText(v) == 3 * v
TextLen(texto) ==
    IF texto = 0 THEN 0 ELSE IF texto = ExtractText(1) THEN 60 ELSE 100 + texto

\* the page version a number is published with
FirstVersion == 2

\* validators the server attaches to page version v
ETagOf(v) == 10 + v
LastModOf(v) == 20 + v

VARIABLES
    pc,              \* position of the running program ("idle": none runs)
    now,             \* the clock, in days
    remote,          \* remote[tipo][numero][versao]: page version served
    serverMode,      \* "validators": the server sends ETag and Last-Modified
    stateFile,       \* data/state.json: [kind, data]
    index,           \* committed Whoosh index: doc_id -> stored fields
    state,           \* the state dict in memory: tipo -> TypeYearState
    budget,          \* Budget(max_requests, used)
    recheck_window,  \* parameter of run_update
    max_limite,      \* parameter of achar_ultimo_numero
    tipos,           \* parameter of run_update / TYPES of build_index.py
    pairIdx,         \* position in the (ano, tipo) loop
    last_known,      \* update_type_year: last_known
    ultimo,          \* value returned by achar_ultimo_numero
    counters,        \* update_type_year: counters
    totals,          \* run_update: totals
    warned,          \* the exhaustion warning of run_update was emitted
    docs_to_write,   \* update_type_year: docs_to_write
    numero,          \* loop variable of the backfill / recheck loops
    versao,          \* position in the variant loop
    lo, hi, left, right,   \* achar_ultimo_numero
    writer,          \* build_index.py: documents buffered in the index writer
    n, miss,         \* build_index.py main: scan position and miss streak
    runs, faults, edits,   \* counters that bound the behaviours
    requests,        \* history: requests.get calls issued in the current run
    returned,        \* history: records the fetcher returned in the current run
    probes,          \* history: numbers probed by the current prober invocation
    confirmed,       \* history: numbers norma_existe answered true for, in this invocation
    found,           \* history: tipo -> value the prober returned in this run
    saved,           \* history: tipo -> last_num_known last written to the file
    lastCall,        \* history: the last call of the oracle / fetcher
    tmpFile,         \* data/state.json.tmp: [kind, data]
    prevFile,        \* history: data/state.json when the last save_state began
    stateShape,      \* what json.load gave load_state: "mapping", or what else
    derived,         \* history: the doc_ids derived, each with its tuple and program
    cutShort         \* history: types whose last prober invocation the budget ended

vars == << pc, now, remote, serverMode, stateFile, index, state, budget,
           recheck_window, max_limite, tipos, pairIdx, last_known, ultimo,
           counters,
           totals, warned, docs_to_write, numero, versao, lo, hi, left, right,
           writer, n, miss, runs, faults, edits, requests, returned, probes, confirmed,
           found, saved, lastCall, tmpFile, prevFile, stateShape,
           derived, cutShort >>

envVars == << now, remote, serverMode, edits, tipos >>
proberVars == << lo, hi, left, right >>
indexVars == << writer, n, miss >>
fileVars == << tmpFile, prevFile, stateShape >>
histVars == << derived, cutShort >>

(***************************************************************************)
(* Records                                                                 *)
(***************************************************************************)
NoDoc == [doc_id |-> "", tipo_sigla |-> "", numero |-> 0, versao |-> "",
          etag |-> NoHeader, last_modified |-> NoHeader, content_hash |-> 0]

NoHeaders == [inm |-> NoHeader, ims |-> NoHeader]

EmptyTY == [last_num_known |-> 0, last_checked_at |-> NoneT,
            last_probe_at |-> NoneT, last_num_scanned |-> 0]

\* {"meta": ..., "years": {}}: every (ano, tipo) reads as the defaults
EmptyState == [t \in TipoSet |-> EmptyTY]

\* no prober invocation for any type
NotProbed == [t \in TipoSet |-> -1]

ZeroCounters == [new |-> 0, updated |-> 0, skipped |-> 0, probed |-> 0]

\* a path at which there is no file
NoFile == [kind |-> "absent", data |-> EmptyState]

NoCall == [seq |-> 0, minlen |-> 0,
           kind |-> "none", doc_id |-> "", sent |-> NoHeaders, code |-> 0,
           texto |-> 0, has_prev |-> FALSE, prev |-> NoDoc, some |-> FALSE,
           d |-> NoDoc, spent |-> 0, issued |-> FALSE]

(***************************************************************************)
(* State file                                                              *)
(***************************************************************************)
load_state(file) == IF file.kind = "ok" THEN file.data ELSE EmptyState

save_state_truncated(st) == [kind |-> "partial", data |-> EmptyState]
save_state(st) == [kind |-> "ok", data |-> st]

get_type_year_state(st, ano, tipo) == st[tipo]

(***************************************************************************)
(* The remote site                                                         *)
(***************************************************************************)
Page(tipo, numero_, versao_) ==
    IF numero_ \in DOMAIN remote[tipo] THEN remote[tipo][numero_][versao_] ELSE 0

\* status of the server's answer: 304 when a validator sent matches the page
ServerStatus(page, headers) ==
    IF /\ serverMode = "validators"
       /\ headers.inm = ETagOf(page) \/ headers.ims = LastModOf(page)
    THEN 304 ELSE 200

ServerHeaders(page) ==
    [ETag |-> IF serverMode = "validators" THEN ETagOf(page) ELSE NoHeader,
     LastModified |-> IF serverMode = "validators" THEN LastModOf(page)
                                                   ELSE NoHeader]

NoRespHeaders == [ETag |-> NoHeader, LastModified |-> NoHeader]

\* what can happen to a request: "ok" the server answers; "exc" requests.get
\* raises; "http5xx" the server answers 500; "late" the answer is 200 and
\* reading r.text raises, after budget.spend(1)
Outcomes(b, page, headers) ==
    {"ok"} \cup
    (IF b.used < b.max_requests /\ faults < MaxFaults
     THEN {"exc", "http5xx"} \cup
          (IF ServerStatus(page, headers) = 200 THEN {"late"} ELSE {})
     ELSE {})

(***************************************************************************)
(* app.py: fetch_html, norma_existe                                        *)
(***************************************************************************)
\* result of a GET under the budget: code, html (page version, 0 for ""),
\* the response headers kept, the budget afterwards, and whether requests.get
\* was called
FetchResultServed(code, html, h, b, issued) ==
    [code |-> IF issued /\ code = 0 THEN 200 ELSE code,
     html |-> IF issued /\ code = 0 THEN FirstVersion ELSE html,
     h |-> h, budget |-> b, issued |-> issued]
FetchResult(code, html, h, b, issued) ==
    [code |-> code, html |-> html, h |-> h, budget |-> b, issued |-> issued]

fetch_html(url_page, b, headers, oc) ==
    IF ~ok(b) THEN FetchResult(0, 0, NoRespHeaders, b, FALSE)
    ELSE IF oc = "exc"
         THEN FetchResult(0, 0, NoRespHeaders, spend(b, 1), TRUE)
    ELSE LET status == IF oc = "http5xx" THEN 500
                       ELSE ServerStatus(url_page, headers)
         IN IF oc = "late" /\ status = 200
            THEN \* r.text raises after budget.spend(1): the handler spends again
                 FetchResult(0, 0, NoRespHeaders, spend(spend(b, 1), 1), TRUE)
            ELSE FetchResult(status,
                             IF status = 200 THEN url_page ELSE 0,
                             IF oc = "http5xx" THEN NoRespHeaders
                                               ELSE ServerHeaders(url_page),
                             spend(b, 1), TRUE)

\* the answer of the existence oracle for a fetched page
ExistsAnswerUnlessShell(r, minlen) ==
    IF r.code # 200 THEN TRUE ELSE TextLen(ExtractText(r.html)) > minlen
ExistsAnswer(r, minlen) ==
    IF r.code # 200 THEN FALSE ELSE TextLen(ExtractText(r.html)) > minlen

norma_existe(tipo, numero_, ano, b, oc) ==
    LET r == fetch_html(Page(tipo, numero_, "Original"), b, NoHeaders, oc)
    IN [exists |-> ExistsAnswer(r, MinLenApp), r |-> r]

(***************************************************************************)
(* app.py: doc_meta, upsert_docs, fetch_and_build_doc                      *)
(***************************************************************************)
doc_meta(ix, doc_id) == IF doc_id \in DOMAIN ix THEN ix[doc_id] ELSE NoDoc
has_doc(ix, doc_id) == doc_id \in DOMAIN ix

RECURSIVE upsert_docs(_, _)
upsert_docs_drop(ix, docs) == ix
upsert_docs(ix, docs) ==
    IF docs = <<>> THEN ix
    ELSE upsert_docs((Head(docs).doc_id :> Head(docs)) @@ ix, Tail(docs))

\* the cache-validation headers built from the prior record
CondHeadersNone(has_prev, prev) == NoHeaders
CondHeaders(has_prev, prev) ==
    [inm |-> IF has_prev /\ prev.etag # NoHeader THEN prev.etag ELSE NoHeader,
     ims |-> IF has_prev /\ prev.last_modified # NoHeader
             THEN prev.last_modified ELSE NoHeader]

\* "se hash igual ao que ja esta guardado, nao precisa regravar"
SameHashNever(has_prev, prev, content_hash) == FALSE
SameHash(has_prev, prev, content_hash) ==
    has_prev /\ prev.content_hash = content_hash

\* the record built (some = FALSE for None), with the facts of the call
FetcherResult(minlen, doc_id, has_prev, prev, cond, r, texto, some, d, b) ==
    [some |-> some, d |-> IF some THEN d ELSE NoDoc, budget |-> r.budget,
     issued |-> r.issued,
     call |-> [seq |-> lastCall.seq + 1, minlen |-> minlen,
               kind |-> "fetch", doc_id |-> doc_id,
               sent |-> IF r.issued THEN cond ELSE NoHeaders,
               code |-> r.code, texto |-> texto, has_prev |-> has_prev,
               prev |-> prev, some |-> some, d |-> IF some THEN d ELSE NoDoc,
               spent |-> r.budget.used - b.used, issued |-> r.issued]]

fetch_and_build_doc(tipo, numero_, ano, versao_, b, ix, oc) ==
    LET doc_id == make_doc_id(tipo, numero_, ano, versao_)
        has_prev == has_doc(ix, doc_id)
        prev == doc_meta(ix, doc_id)
        cond_headers == CondHeaders(has_prev, prev)
        r == fetch_html(Page(tipo, numero_, versao_), b, cond_headers, oc)
        texto == IF r.code = 200 THEN ExtractText(r.html) ELSE 0
        content_hash == sha256_str(texto)
        some == /\ r.code # 304
                /\ r.code = 200
                /\ TextLen(texto) > MinLenApp
                /\ ~SameHash(has_prev, prev, content_hash)
        d == [doc_id |-> doc_id, tipo_sigla |-> tipo, numero |-> numero_,
              versao |-> versao_, etag |-> r.h.ETag,
              last_modified |-> r.h.LastModified, content_hash |-> content_hash]
    IN FetcherResult(MinLenApp, doc_id, has_prev, prev, cond_headers, r, texto,
                     some, d, b)

(***************************************************************************)
(* app.py: update_type_year, the local computations                        *)
(***************************************************************************)
\* need_probe of update_type_year (lines 361-373); BadT is a last_probe_at
\* that strptime rejects
BadT == -2
NeedProbeAlways(ty, t) == TRUE
NeedProbeKnown(ty, t) == ty.last_num_known > 0
NeedProbe(ty, t) ==
    LET lk == ty.last_num_known
        at == ty.last_probe_at
    IN IF at = NoneT THEN (lk = 0) \/ (lk > 0)
       ELSE IF at = BadT THEN TRUE
       ELSE (lk = 0) \/ (t - at > ProbeRefreshDays)

\* last_known after a probe that returned ultimo_ (lines 379-382)
NewLastKnownProbe(ultimo_, lk) == IF ultimo_ < 0 THEN 0 ELSE ultimo_
NewLastKnown(ultimo_, lk) ==
    LET m == IF ultimo_ > lk THEN ultimo_ ELSE lk
    IN IF m < 0 THEN 0 ELSE m

\* start_new (lines 395-406): walk down from last_known, at most
\* LookbackSteps steps, to the highest number whose Original is indexed
RECURSIVE WalkBack(_, _, _, _)
WalkBack(ix, tipo, probe, steps) ==
    IF probe >= 1 /\ steps < LookbackSteps
    THEN IF has_doc(ix, make_doc_id(tipo, probe, Ano, "Original"))
         THEN probe + 1
         ELSE WalkBack(ix, tipo, probe - 1, steps + 1)
    ELSE 1

StartNew(ix, tipo, lk) == WalkBack(ix, tipo, lk, 0)

\* start of the recheck window (line 429)
RecheckStartAll(lk, rw) == 1
RecheckStart(lk, rw) == Max2(1, lk - rw + 1)

\* midpoint of the binary search (line 232)
MidLinear(l, r) == l + 1
Mid(l, r) == (l + r) \div 2

\* right end of the binary search (line 230)
BinRight(hi_, limite) == Min2(hi_, limite)

(***************************************************************************)
(* Initial state: empty data directory, a remote site                      *)
(***************************************************************************)
\* a site where exactly the numbers of exists_[tipo] exist, in both variants
RemoteOf(nums, exists_) ==
    [t \in TipoSet |->
        [k \in nums |-> [v \in VersaoSet |-> IF k \in exists_[t] THEN FirstVersion ELSE 0]]]

InitLocals ==
    /\ recheck_window = 0
    /\ last_known = 0
    /\ ultimo = 0
    /\ counters = ZeroCounters
    /\ totals = ZeroCounters
    /\ warned = FALSE
    /\ docs_to_write = <<>>
    /\ numero = 0
    /\ versao = 0
    /\ lo = 0 /\ hi = 0 /\ left = 0 /\ right = 0
    /\ writer = <<>>
    /\ n = 0 /\ miss = 0
    /\ faults = 0 /\ edits = 0
    /\ requests = 0
    /\ returned = {}
    /\ probes = <<>>
    /\ confirmed = {}
    /\ found = NotProbed
    /\ saved = [t \in TipoSet |-> 0]
    /\ lastCall = NoCall
    /\ tmpFile = NoFile
    /\ prevFile = NoFile
    /\ stateShape = "mapping"
    /\ derived = {}
    /\ cutShort = {}

\* an empty data directory and a site for the types of tipos_
InitWith(tipos_, runs_) ==
    /\ pc = "idle"
    /\ now = 0
    /\ tipos = tipos_
    /\ \E ex \in [TipoSet -> SUBSET (1..MaxNum)] :
         /\ \A t \in TipoSet \ Range(tipos_) : ex[t] = {}
         /\ remote = RemoteOf(1..MaxNum, ex)
    /\ serverMode \in {"none", "validators"}
    /\ stateFile = [kind |-> "absent", data |-> EmptyState]
    /\ index = <<>>
    /\ state = EmptyState
    /\ budget = [max_requests |-> 0, used |-> 0]
    /\ max_limite = MaxLimite
    /\ InitLocals
    /\ pairIdx = 0
    /\ runs = runs_

\* runs of one (tipo, ano) pair
Init == InitWith(<<TYPES[1]>>, 0)

\* one run over every type
InitRun == InitWith(TYPES, MaxRuns - 1)

(***************************************************************************)
(* History of the calls                                                    *)
(***************************************************************************)
ProbeCall(tipo, numero_, res, b) ==
    [seq |-> lastCall.seq + 1, minlen |-> 0, kind |-> "exists", doc_id |-> make_doc_id(tipo, numero_, Ano, "Original"),
     sent |-> NoHeaders, code |-> res.r.code,
     texto |-> IF res.r.code = 200 THEN ExtractText(res.r.html) ELSE 0,
     has_prev |-> FALSE, prev |-> NoDoc, some |-> res.exists, d |-> NoDoc,
     spent |-> res.r.budget.used - b.used, issued |-> res.r.issued]

Account(r, oc, call) ==
    /\ budget' = r.budget
    /\ requests' = requests + (IF r.issued THEN 1 ELSE 0)
    /\ faults' = faults + (IF oc = "ok" THEN 0 ELSE 1)
    /\ lastCall' = call

Tipo == tipos[pairIdx]

(***************************************************************************)
(* app.py: run_update                                                      *)
(***************************************************************************)
StartRunUpdate(max_requests, rw) ==
    /\ pc = "idle"
    /\ runs < MaxRuns
    /\ runs' = runs + 1
    /\ pc' = "pair"
    /\ state' = load_state(stateFile)
    /\ budget' = [max_requests |-> max_requests, used |-> 0]
    /\ recheck_window' = rw
    /\ pairIdx' = 1
    /\ totals' = ZeroCounters
    /\ counters' = ZeroCounters
    /\ warned' = FALSE
    /\ requests' = 0
    /\ returned' = {}
    /\ probes' = <<>>
    /\ confirmed' = {}
    /\ found' = NotProbed
    /\ UNCHANGED saved
    /\ lastCall' = NoCall
    /\ last_known' = 0 /\ ultimo' = 0
    /\ UNCHANGED << envVars, stateFile, index, max_limite, docs_to_write,
                    numero, versao, proberVars, indexVars, faults >>
    /\ UNCHANGED << fileVars, histVars >>

\* lines 537-542: the budget is exhausted before a pair
RunUpdateExhausted ==
    /\ pc = "pair"
    /\ pairIdx <= Len(tipos)
    /\ ~ok(budget)
    /\ warned' = TRUE
    /\ stateFile' = save_state(state)
    /\ saved' = [t \in TipoSet |-> state[t].last_num_known]
    /\ pc' = "report"
    /\ UNCHANGED << envVars, index, state, budget, recheck_window, max_limite,
                    pairIdx, last_known, ultimo, counters, totals,
                    docs_to_write, numero, versao, proberVars, indexVars,
                    runs, faults, requests, returned, probes, confirmed, found, lastCall >>
    /\ UNCHANGED << fileVars, histVars >>

\* lines 551-552: every pair was processed
RunUpdateDone ==
    /\ pc = "pair"
    /\ pairIdx > Len(tipos)
    /\ stateFile' = save_state(state)
    /\ saved' = [t \in TipoSet |-> state[t].last_num_known]
    /\ pc' = "report"
    /\ UNCHANGED << envVars, index, state, budget, recheck_window, max_limite,
                    pairIdx, last_known, ultimo, counters, totals, warned,
                    docs_to_write, numero, versao, proberVars, indexVars,
                    runs, faults, requests, returned, probes, confirmed, found, lastCall >>
    /\ UNCHANGED << fileVars, histVars >>

\* line 544 and update_type_year lines 353-375
UpdateTypeYearBegin ==
    /\ pc = "pair"
    /\ pairIdx <= Len(tipos)
    /\ ok(budget)
    /\ LET ty == get_type_year_state(state, Ano, Tipo)
       IN /\ last_known' = ty.last_num_known
          /\ pc' = IF NeedProbe(ty, now) /\ ok(budget) THEN "probe_first"
                                                      ELSE "plan"
    /\ counters' = ZeroCounters
    /\ probes' = <<>>
    /\ confirmed' = {}
    /\ UNCHANGED << found, saved >>
    /\ UNCHANGED << envVars, stateFile, index, state, budget, recheck_window,
                    max_limite, pairIdx, ultimo, totals, warned,
                    docs_to_write, numero, versao, proberVars, indexVars,
                    runs, faults, requests, returned, lastCall >>
    /\ UNCHANGED << fileVars, histVars >>

(***************************************************************************)
(* app.py: achar_ultimo_numero                                             *)
(***************************************************************************)
\* lines 215-222: return 0 without budget, else norma_existe(tipo, 1, ano)
ProbeFirst ==
    /\ pc = "probe_first"
    /\ IF ~ok(budget)
       THEN /\ ultimo' = 0
            /\ pc' = "probe_ret"
            /\ UNCHANGED << lo, hi, budget, faults, requests, probes, confirmed, lastCall >>
       ELSE \E oc \in Outcomes(budget, Page(Tipo, 1, "Original"), NoHeaders) :
              LET res == norma_existe(Tipo, 1, Ano, budget, oc)
              IN /\ Account(res.r, oc, ProbeCall(Tipo, 1, res, budget))
                 /\ probes' = Append(probes, 1)
                 /\ confirmed' = IF res.exists THEN confirmed \cup {1} ELSE confirmed
                 /\ IF res.exists
                    THEN /\ lo' = 1 /\ hi' = 2
                         /\ pc' = "probe_exp"
                         /\ UNCHANGED ultimo
                    ELSE /\ ultimo' = 0
                         /\ pc' = "probe_ret"
                         /\ UNCHANGED << lo, hi >>
    /\ UNCHANGED << found, saved >>
    /\ UNCHANGED << envVars, stateFile, index, state, recheck_window,
                    max_limite, pairIdx, last_known, counters, totals, warned,
                    docs_to_write, numero, versao, left, right, indexVars,
                    runs, returned >>
    /\ cutShort' = IF ok(budget) THEN cutShort \ {Tipo} ELSE cutShort \cup {Tipo}
    /\ UNCHANGED << fileVars, derived >>

\* line 225, the loop continues: norma_existe(tipo, hi, ano)
ProbeExpStep ==
    /\ pc = "probe_exp"
    /\ hi <= max_limite
    /\ ok(budget)
    /\ \E oc \in Outcomes(budget, Page(Tipo, hi, "Original"), NoHeaders) :
         LET res == norma_existe(Tipo, hi, Ano, budget, oc)
         IN /\ Account(res.r, oc, ProbeCall(Tipo, hi, res, budget))
            /\ probes' = Append(probes, hi)
            /\ confirmed' = IF res.exists THEN confirmed \cup {hi} ELSE confirmed
            /\ IF res.exists
               THEN /\ lo' = hi /\ hi' = hi * 2
                    /\ UNCHANGED << pc, left, right >>
               ELSE /\ left' = lo /\ right' = BinRight(hi, max_limite)
                    /\ pc' = "probe_bin"
                    /\ UNCHANGED << lo, hi >>
    /\ UNCHANGED << found, saved >>
    /\ UNCHANGED << envVars, stateFile, index, state, recheck_window,
                    max_limite, pairIdx, last_known, ultimo, counters, totals,
                    warned, docs_to_write, numero, versao, indexVars, runs,
                    returned >>
    /\ UNCHANGED << fileVars, histVars >>

\* line 225, the loop ends on the ceiling or on the budget; line 230
ProbeExpExit ==
    /\ pc = "probe_exp"
    /\ ~(hi <= max_limite /\ ok(budget))
    /\ left' = lo /\ right' = BinRight(hi, max_limite)
    /\ pc' = "probe_bin"
    /\ UNCHANGED << envVars, stateFile, index, state, budget, recheck_window,
                    max_limite, pairIdx, last_known, ultimo, counters, totals,
                    warned, docs_to_write, numero, versao, lo, hi, indexVars,
                    runs, faults, requests, returned, probes, confirmed, found, saved, lastCall >>
    /\ cutShort' = IF hi <= max_limite THEN cutShort \cup {Tipo} ELSE cutShort
    /\ UNCHANGED << fileVars, derived >>

\* lines 231-236
ProbeBinStep ==
    /\ pc = "probe_bin"
    /\ left + 1 < right
    /\ ok(budget)
    /\ LET mid == Mid(left, right)
       IN \E oc \in Outcomes(budget, Page(Tipo, mid, "Original"), NoHeaders) :
            LET res == norma_existe(Tipo, mid, Ano, budget, oc)
            IN /\ Account(res.r, oc, ProbeCall(Tipo, mid, res, budget))
               /\ probes' = Append(probes, mid)
               /\ confirmed' = IF res.exists THEN confirmed \cup {mid} ELSE confirmed
               /\ IF res.exists
                  THEN left' = mid /\ UNCHANGED right
                  ELSE right' = mid /\ UNCHANGED left
    /\ UNCHANGED << found, saved >>
    /\ UNCHANGED << envVars, stateFile, index, state, recheck_window,
                    max_limite, pairIdx, last_known, ultimo, counters, totals,
                    warned, docs_to_write, numero, versao, lo, hi, pc,
                    indexVars, runs, returned >>
    /\ UNCHANGED << fileVars, histVars >>

\* line 238: return left
ProbeBinExit ==
    /\ pc = "probe_bin"
    /\ ~(left + 1 < right /\ ok(budget))
    /\ ultimo' = left
    /\ pc' = "probe_ret"
    /\ lo' = 0 /\ hi' = 0 /\ left' = 0 /\ right' = 0
    /\ UNCHANGED << envVars, stateFile, index, state, budget, recheck_window,
                    max_limite, pairIdx, last_known, counters, totals, warned,
                    docs_to_write, numero, versao, indexVars, runs, faults,
                    requests, returned, probes, confirmed, found, saved, lastCall >>
    /\ cutShort' = IF left + 1 < right THEN cutShort \cup {Tipo} ELSE cutShort
    /\ UNCHANGED << fileVars, derived >>

(***************************************************************************)
(* app.py: update_type_year after the probe                                *)
(***************************************************************************)
\* lines 376-383
AfterProbe ==
    /\ pc = "probe_ret"
    /\ LET lk == NewLastKnown(ultimo, last_known)
       IN /\ last_known' = lk
          /\ state' = [state EXCEPT ![Tipo].last_probe_at = now,
                                    ![Tipo].last_num_known = lk]
    /\ counters' = [counters EXCEPT !.probed = @ + 1]
    /\ found' = [found EXCEPT ![Tipo] = ultimo]
    /\ pc' = "plan"
    /\ UNCHANGED << envVars, stateFile, index, budget, recheck_window,
                    max_limite, pairIdx, ultimo, totals, warned,
                    docs_to_write, numero, versao, proberVars, indexVars,
                    runs, faults, requests, returned, probes, confirmed, saved, lastCall >>
    /\ UNCHANGED << fileVars, histVars >>

\* lines 387-406
BackfillBegin ==
    /\ pc = "plan"
    /\ docs_to_write' = <<>>
    /\ IF last_known > 0 /\ ok(budget)
       THEN /\ numero' = StartNew(index, Tipo, last_known)
            /\ versao' = 1
            /\ pc' = "backfill"
       ELSE /\ pc' = "recheck_plan"
            /\ UNCHANGED << numero, versao >>
    /\ UNCHANGED << envVars, stateFile, index, state, budget, recheck_window,
                    max_limite, pairIdx, last_known, ultimo, counters, totals,
                    warned, proberVars, indexVars, runs, faults, requests,
                    returned, probes, confirmed, found, saved, lastCall >>
    /\ UNCHANGED << fileVars, histVars >>

\* the position after the fetch of variant versao of numero
NextVersao == IF versao < Len(VERSIONS) THEN versao + 1 ELSE 1
NextNumero == IF versao < Len(VERSIONS) THEN numero ELSE numero + 1

\* lines 408-423: one call of fetch_and_build_doc of the backfill loop; the
\* budget is tested once per numero, before its first variant
BackfillFetch ==
    /\ pc = "backfill"
    /\ numero <= last_known
    /\ versao = 1 => ok(budget)
    /\ LET vs == VERSIONS[versao]
           hdr == CondHeaders(has_doc(index, make_doc_id(Tipo, numero, Ano, vs)),
                              doc_meta(index, make_doc_id(Tipo, numero, Ano, vs)))
       IN \E oc \in Outcomes(budget, Page(Tipo, numero, vs), hdr) :
            LET f == fetch_and_build_doc(Tipo, numero, Ano, vs, budget, index, oc)
            IN /\ Account(f, oc, f.call)
               /\ IF f.some
                  THEN /\ docs_to_write' = Append(docs_to_write, f.d)
                       /\ returned' = returned \cup {f.d}
                       /\ counters' =
                            IF ~has_doc(index, f.d.doc_id)
                            THEN [counters EXCEPT !.new = @ + 1]
                            ELSE [counters EXCEPT !.updated = @ + 1]
                  ELSE /\ counters' = [counters EXCEPT !.skipped = @ + 1]
                       /\ UNCHANGED << docs_to_write, returned >>
    /\ versao' = NextVersao
    /\ numero' = NextNumero
    /\ UNCHANGED << envVars, stateFile, index, state, recheck_window,
                    max_limite, pairIdx, last_known, ultimo, totals, warned,
                    pc, proberVars, indexVars, runs, probes, confirmed, found, saved >>
    /\ UNCHANGED << fileVars, histVars >>

\* lines 408-410: the range is done, or the budget is exhausted
BackfillEnd ==
    /\ pc = "backfill"
    /\ versao = 1
    /\ numero > last_known \/ ~ok(budget)
    /\ pc' = "recheck_plan"
    /\ numero' = 0 /\ versao' = 0
    /\ UNCHANGED << envVars, stateFile, index, state, budget, recheck_window,
                    max_limite, pairIdx, last_known, ultimo, counters, totals,
                    warned, docs_to_write, proberVars, indexVars, runs, faults,
                    requests, returned, probes, confirmed, found, saved, lastCall >>
    /\ UNCHANGED << fileVars, histVars >>

\* lines 428-429
RecheckBegin ==
    /\ pc = "recheck_plan"
    /\ IF last_known > 0 /\ ok(budget) /\ recheck_window > 0
       THEN /\ numero' = RecheckStart(last_known, recheck_window)
            /\ versao' = 1
            /\ pc' = "recheck"
       ELSE /\ pc' = "finish"
            /\ UNCHANGED << numero, versao >>
    /\ UNCHANGED << envVars, stateFile, index, state, budget, recheck_window,
                    max_limite, pairIdx, last_known, ultimo, counters, totals,
                    warned, docs_to_write, proberVars, indexVars, runs, faults,
                    requests, returned, probes, confirmed, found, saved, lastCall >>
    /\ UNCHANGED << fileVars, histVars >>

\* lines 430-439: one call of fetch_and_build_doc of the recheck loop
RecheckFetch ==
    /\ pc = "recheck"
    /\ numero <= last_known
    /\ versao = 1 => ok(budget)
    /\ LET vs == VERSIONS[versao]
           hdr == CondHeaders(has_doc(index, make_doc_id(Tipo, numero, Ano, vs)),
                              doc_meta(index, make_doc_id(Tipo, numero, Ano, vs)))
       IN \E oc \in Outcomes(budget, Page(Tipo, numero, vs), hdr) :
            LET f == fetch_and_build_doc(Tipo, numero, Ano, vs, budget, index, oc)
            IN /\ Account(f, oc, f.call)
               /\ IF f.some
                  THEN /\ docs_to_write' = Append(docs_to_write, f.d)
                       /\ returned' = returned \cup {f.d}
                       /\ counters' = [counters EXCEPT !.updated = @ + 1]
                  ELSE UNCHANGED << docs_to_write, returned, counters >>
    /\ versao' = NextVersao
    /\ numero' = NextNumero
    /\ UNCHANGED << envVars, stateFile, index, state, recheck_window,
                    max_limite, pairIdx, last_known, ultimo, totals, warned,
                    pc, proberVars, indexVars, runs, probes, confirmed, found, saved >>
    /\ UNCHANGED << fileVars, histVars >>

\* lines 430-432
RecheckEnd ==
    /\ pc = "recheck"
    /\ versao = 1
    /\ numero > last_known \/ ~ok(budget)
    /\ pc' = "finish"
    /\ numero' = 0 /\ versao' = 0
    /\ UNCHANGED << envVars, stateFile, index, state, budget, recheck_window,
                    max_limite, pairIdx, last_known, ultimo, counters, totals,
                    warned, docs_to_write, proberVars, indexVars, runs, faults,
                    requests, returned, probes, confirmed, found, saved, lastCall >>
    /\ UNCHANGED << fileVars, histVars >>

AddCounters(a, b) ==
    [new |-> a.new + b.new, updated |-> a.updated + b.updated,
     skipped |-> a.skipped + b.skipped, probed |-> a.probed + b.probed]

\* lines 442-447, and run_update lines 545-549
Finish ==
    /\ pc = "finish"
    /\ index' = IF docs_to_write # <<>> THEN upsert_docs(index, docs_to_write)
                                        ELSE index
    /\ state' = [state EXCEPT ![Tipo].last_checked_at = now]
    /\ totals' = AddCounters(totals, counters)
    /\ counters' = ZeroCounters
    /\ docs_to_write' = <<>>
    /\ last_known' = 0 /\ ultimo' = 0
    /\ pairIdx' = pairIdx + 1
    /\ pc' = "pair"
    /\ UNCHANGED << envVars, stateFile, budget, recheck_window, max_limite,
                    warned, numero, versao, proberVars, indexVars, runs,
                    faults, requests, returned, probes, confirmed, found, saved, lastCall >>
    /\ UNCHANGED << fileVars, histVars >>

\* lines 559 / 566: the caller reports totals and budget.used; the script
\* ends and nothing of the run is kept in memory
Report ==
    /\ pc = "report"
    /\ pc' = "idle"
    /\ state' = EmptyState
    /\ budget' = [max_requests |-> 0, used |-> 0]
    /\ recheck_window' = 0
    /\ pairIdx' = 0
    /\ totals' = ZeroCounters
    /\ warned' = FALSE
    /\ requests' = 0
    /\ returned' = {}
    /\ probes' = <<>>
    /\ confirmed' = {}
    /\ found' = NotProbed
    /\ UNCHANGED saved
    /\ lastCall' = NoCall
    /\ UNCHANGED << envVars, stateFile, index, max_limite, last_known, ultimo,
                    counters, docs_to_write, numero, versao, proberVars,
                    indexVars, runs, faults >>
    /\ UNCHANGED << fileVars, histVars >>

(***************************************************************************)
(* The environment                                                         *)
(***************************************************************************)
\* the data directory was written by a run and another run may follow
BetweenRuns == pc = "idle" /\ 0 < runs /\ runs < MaxRuns

\* a remote page is edited, published or withdrawn between two runs
RemoteEdit ==
    /\ BetweenRuns
    /\ edits < MaxEdits
    /\ \E t \in Range(tipos), k \in 1..MaxNum, v \in VersaoSet, x \in 0..MaxText :
         /\ k \in DOMAIN remote[t]
         /\ remote[t][k][v] # x
         /\ remote' = [remote EXCEPT ![t][k][v] = x]
    /\ edits' = edits + 1
    /\ UNCHANGED << pc, now, serverMode, tipos, stateFile, index, state,
                    budget, recheck_window, max_limite, pairIdx, last_known, ultimo,
                    counters, totals, warned, docs_to_write, numero, versao,
                    proberVars, indexVars, runs, faults, requests, returned,
                    probes, confirmed, found, saved, lastCall >>
    /\ UNCHANGED << fileVars, histVars >>

\* time passes between two runs
Tick ==
    /\ BetweenRuns
    /\ \E d \in TickDays : now + d <= MaxNow /\ now' = now + d
    /\ UNCHANGED << pc, remote, serverMode, edits, tipos, stateFile, index,
                    state, budget, recheck_window, max_limite, pairIdx, last_known,
                    ultimo, counters, totals, warned, docs_to_write, numero,
                    versao, proberVars, indexVars, runs, faults, requests,
                    returned, probes, confirmed, found, saved, lastCall >>
    /\ UNCHANGED << fileVars, histVars >>

\* data/state.json is deleted, or damaged, between two runs
LoseStateFile ==
    /\ BetweenRuns
    /\ stateFile.kind = "ok"
    /\ \E k \in {"absent", "corrupt"} :
         stateFile' = [kind |-> k, data |-> EmptyState]
    /\ UNCHANGED << pc, envVars, index, state, budget, recheck_window,
                    max_limite, pairIdx, last_known, ultimo, counters, totals,
                    warned, docs_to_write, numero, versao, proberVars,
                    indexVars, runs, faults, requests, returned, probes, confirmed, found, saved,
                    lastCall >>
    /\ UNCHANGED << fileVars, histVars >>

\* the steps of run_update
RunUpdateStep ==
    \/ \E m \in 0..MaxRequests, rw \in RecheckWindows : StartRunUpdate(m, rw)
    \/ RunUpdateExhausted
    \/ RunUpdateDone
    \/ UpdateTypeYearBegin
    \/ ProbeFirst
    \/ ProbeExpStep
    \/ ProbeExpExit
    \/ ProbeBinStep
    \/ ProbeBinExit
    \/ AfterProbe
    \/ BackfillBegin
    \/ BackfillFetch
    \/ BackfillEnd
    \/ RecheckBegin
    \/ RecheckFetch
    \/ RecheckEnd
    \/ Finish
    \/ Report

\* what happens to the site, the clock and the data directory between runs
Environment ==
    \/ RemoteEdit
    \/ Tick
    \/ LoseStateFile

NextApp == RunUpdateStep \/ Environment

SpecApp == Init /\ [][NextApp]_vars

\* one run of run_update over both types, from an empty data directory
SpecRun == InitRun /\ [][RunUpdateStep]_vars

(***************************************************************************)
(* build_index.py: fetch, pagina_tem_texto, fetch_doc                      *)
(***************************************************************************)
fetch(url_page, b, headers, oc) ==
    IF ~ok(b) THEN FetchResult(0, 0, NoRespHeaders, b, FALSE)
    ELSE IF oc = "exc"
         THEN FetchResult(0, 0, NoRespHeaders, spend(b, 1), TRUE)
    ELSE LET status == IF oc = "http5xx" THEN 500
                       ELSE ServerStatus(url_page, headers)
         IN IF oc = "late" /\ status = 200
            THEN FetchResult(0, 0, NoRespHeaders, spend(spend(b, 1), 1), TRUE)
            ELSE FetchResult(status,
                             IF status = 200 THEN url_page ELSE 0,
                             IF oc = "http5xx" THEN NoRespHeaders
                                               ELSE ServerHeaders(url_page),
                             spend(b, 1), TRUE)

pagina_tem_texto_never(tipo, numero_, ano, b, oc) ==
    [exists |-> FALSE, r |-> fetch(Page(tipo, numero_, "Original"), b, NoHeaders, oc)]
pagina_tem_texto(tipo, numero_, ano, b, oc) ==
    LET r == fetch(Page(tipo, numero_, "Original"), b, NoHeaders, oc)
    IN [exists |-> ExistsAnswer(r, MinLenIndex), r |-> r]

fetch_doc(ix, tipo, numero_, ano, versao_, b, oc) ==
    LET doc_id == make_doc_id_index(tipo, numero_, ano, versao_)
        has_prev == has_doc(ix, doc_id)
        prev == doc_meta(ix, doc_id)
        cond == CondHeaders(has_prev, prev)
        r == fetch(Page(tipo, numero_, versao_), b, cond, oc)
        texto == IF r.code = 200 THEN ExtractText(r.html) ELSE 0
        h == sha256_str(texto)
        some == /\ r.code # 304
                /\ r.code = 200
                /\ TextLen(texto) > MinLenIndex
                /\ ~SameHash(has_prev, prev, h)
        d == [doc_id |-> doc_id, tipo_sigla |-> tipo, numero |-> numero_,
              versao |-> versao_, etag |-> r.h.ETag,
              last_modified |-> r.h.LastModified, content_hash |-> h]
    IN FetcherResult(MinLenIndex, doc_id, has_prev, prev, cond, r, texto, some,
                     d, b)

(***************************************************************************)
(* build_index.py: main                                                    *)
(***************************************************************************)
\* lines 355-363
StartMain(max_req) ==
    /\ pc = "idle"
    /\ runs < MaxRuns
    /\ runs' = runs + 1
    /\ pc' = "bi_tipo"
    /\ state' = load_state(stateFile)
    /\ budget' = [max_requests |-> max_req, used |-> 0]
    /\ writer' = <<>>
    /\ pairIdx' = 1
    /\ requests' = 0
    /\ returned' = {}
    /\ lastCall' = NoCall
    /\ UNCHANGED << envVars, stateFile, index, recheck_window, max_limite,
                    last_known, ultimo, counters, totals, warned,
                    docs_to_write, numero, versao, proberVars, n, miss,
                    faults, probes, confirmed, found, saved >>
    /\ UNCHANGED << fileVars, histVars >>

\* lines 368-381: the next type of the year
MainBeginPair ==
    /\ pc = "bi_tipo"
    /\ pairIdx <= Len(tipos)
    /\ ok(budget)
    /\ n' = Max2(1, state[Tipo].last_num_scanned + 1)
    /\ miss' = 0
    /\ pc' = "bi_scan"
    /\ UNCHANGED << envVars, stateFile, index, state, budget, recheck_window,
                    max_limite, pairIdx, last_known, ultimo, counters, totals,
                    warned, docs_to_write, numero, versao, proberVars, writer,
                    runs, faults, requests, returned, probes, confirmed, found, saved, lastCall >>
    /\ UNCHANGED << fileVars, histVars >>

\* lines 384-387, 397-403: the existence check of n
MainScanStep ==
    /\ pc = "bi_scan"
    /\ ok(budget)
    /\ miss < MissStreakStop
    /\ \E oc \in Outcomes(budget, Page(Tipo, n, "Original"), NoHeaders) :
         LET res == pagina_tem_texto(Tipo, n, Ano, budget, oc)
         IN /\ Account(res.r, oc, ProbeCall(Tipo, n, res, budget))
            /\ IF res.exists
               THEN /\ miss' = 0
                    /\ versao' = 1
                    /\ pc' = "bi_fetch"
                    /\ UNCHANGED n
               ELSE /\ miss' = miss + 1
                    /\ n' = n + 1
                    /\ UNCHANGED << versao, pc >>
    /\ UNCHANGED << envVars, stateFile, index, state, recheck_window,
                    max_limite, pairIdx, last_known, ultimo, counters, totals,
                    warned, docs_to_write, numero, proberVars, writer, runs,
                    returned, probes, confirmed, found, saved >>
    /\ UNCHANGED << fileVars, histVars >>

\* lines 389-395: fetch_doc of one variant of n
MainFetchDoc ==
    /\ pc = "bi_fetch"
    /\ versao <= Len(VERSIONS)
    /\ ok(budget)
    /\ LET vs == VERSIONS[versao]
           hdr == CondHeaders(has_doc(index, make_doc_id_index(Tipo, n, Ano, vs)),
                              doc_meta(index, make_doc_id_index(Tipo, n, Ano, vs)))
       IN \E oc \in Outcomes(budget, Page(Tipo, n, vs), hdr) :
            LET f == fetch_doc(index, Tipo, n, Ano, vs, budget, oc)
            IN /\ Account(f, oc, f.call)
               /\ IF f.some
                  THEN /\ writer' = Append(writer, f.d)
                       /\ returned' = returned \cup {f.d}
                  ELSE UNCHANGED << writer, returned >>
    /\ versao' = versao + 1
    /\ UNCHANGED << envVars, stateFile, index, state, recheck_window,
                    max_limite, pairIdx, last_known, ultimo, counters, totals,
                    warned, docs_to_write, numero, proberVars, n, miss, pc,
                    runs, probes, confirmed, found, saved >>
    /\ UNCHANGED << fileVars, histVars >>

\* lines 389-391, 396, 403: the variants are done or the budget is exhausted
MainFetchEnd ==
    /\ pc = "bi_fetch"
    /\ versao > Len(VERSIONS) \/ ~ok(budget)
    /\ state' = [state EXCEPT ![Tipo].last_num_scanned = n]
    /\ n' = n + 1
    /\ versao' = 0
    /\ pc' = "bi_scan"
    /\ UNCHANGED << envVars, stateFile, index, budget, recheck_window,
                    max_limite, pairIdx, last_known, ultimo, counters, totals,
                    warned, docs_to_write, numero, proberVars, writer, miss,
                    runs, faults, requests, returned, probes, confirmed, found, saved, lastCall >>
    /\ UNCHANGED << fileVars, histVars >>

\* lines 384, 406-407: the scan of the pair ends
MainScanEnd ==
    /\ pc = "bi_scan"
    /\ ~(ok(budget) /\ miss < MissStreakStop)
    /\ state' = [state EXCEPT ![Tipo].last_checked_at = now]
    /\ pairIdx' = pairIdx + 1
    /\ n' = 0 /\ miss' = 0
    /\ pc' = "bi_tipo"
    /\ UNCHANGED << envVars, stateFile, index, budget, recheck_window,
                    max_limite, last_known, ultimo, counters, totals, warned,
                    docs_to_write, numero, versao, proberVars, writer, runs,
                    faults, requests, returned, probes, confirmed, found, saved, lastCall >>
    /\ UNCHANGED << fileVars, histVars >>

\* lines 369-371 (break) or the end of the loops, then lines 409-413
MainCommit ==
    /\ pc = "bi_tipo"
    /\ pairIdx > Len(tipos) \/ ~ok(budget)
    /\ index' = upsert_docs(index, writer)
    /\ writer' = <<>>
    /\ stateFile' = save_state(state)
    /\ saved' = [t \in TipoSet |-> state[t].last_num_known]
    /\ pc' = "report"
    /\ UNCHANGED << envVars, state, budget, recheck_window, max_limite,
                    pairIdx, last_known, ultimo, counters, totals, warned,
                    docs_to_write, numero, versao, proberVars, n, miss, runs,
                    faults, requests, returned, probes, confirmed, found, lastCall >>
    /\ UNCHANGED << fileVars, histVars >>

NextIndex ==
    \/ \E m \in 0..MaxRequests : StartMain(m)
    \/ MainBeginPair
    \/ MainScanStep
    \/ MainFetchDoc
    \/ MainFetchEnd
    \/ MainScanEnd
    \/ MainCommit
    \/ Report
    \/ RemoteEdit
    \/ Tick
    \/ LoseStateFile

SpecIndex == Init /\ [][NextIndex]_vars

Next == NextApp \/ NextIndex

Spec == Init /\ [][Next]_vars

(***************************************************************************)
(* achar_ultimo_numero on its own: a site where exactly 1..N exist, any    *)
(* ceiling, any budget                                                     *)
(***************************************************************************)
InitProber ==
    /\ pc = "probe_first"
    /\ now = 0
    /\ tipos = <<TYPES[1]>>
    /\ \E N \in 0..MaxProberLimite :
         remote = RemoteOf(1..MaxProberLimite,
                           [t \in TipoSet |-> IF t = TYPES[1] THEN 1..N ELSE {}])
    /\ serverMode = "none"
    /\ stateFile = [kind |-> "absent", data |-> EmptyState]
    /\ index = <<>>
    /\ state = EmptyState
    /\ \E m \in 0..MaxProberBudget : budget = [max_requests |-> m, used |-> 0]
    /\ max_limite \in 1..MaxProberLimite
    /\ InitLocals
    /\ pairIdx = 1
    /\ runs = 1

NextProber ==
    \/ ProbeFirst
    \/ ProbeExpStep
    \/ ProbeExpExit
    \/ ProbeBinStep
    \/ ProbeBinExit

SpecProber == InitProber /\ [][NextProber]_vars

(***************************************************************************)
(* Facts about the site and the run that the properties speak of           *)
(***************************************************************************)
Exists(tipo, k) == Page(tipo, k, "Original") # 0

\* exactly the numbers 1..N exist for tipo
ContiguousTo(tipo, N) == \A k \in DOMAIN remote[tipo] : Exists(tipo, k) <=> k <= N

RECURSIVE Log2Floor(_)
Log2Floor(x) == IF x <= 1 THEN 0 ELSE 1 + Log2Floor(x \div 2)

\* the prober returned, no request failed and the budget was never short
ProberRanFreely == pc = "probe_ret" /\ faults = 0 /\ ok(budget)

(***************************************************************************)
(* C2: Prober correctness. When exactly 1..N exist, the budget is          *)
(* sufficient and no transport error occurs, achar_ultimo_numero returns   *)
(* N, for every N from 0 up to and including max_limite.                   *)
(***************************************************************************)
C2_ProberReturnsLast ==
    \A N \in 0..MaxProberLimite :
        (ProberRanFreely /\ ContiguousTo(Tipo, N) /\ N <= max_limite)
            => ultimo = N

(***************************************************************************)
(* C10: Prober call bound. When exactly 1..N exist, 1 <= N < max_limite,   *)
(* with sufficient budget and no failed request, achar_ultimo_numero       *)
(* issues at most 2*floor(log2(N)) + 2 existence probes; for N = 3 it      *)
(* probes 1, 2 (exists), 4 (fails), then 3, and returns 3 within 5 probes. *)
(***************************************************************************)
C10_ProbeBound ==
    \A N \in 1..MaxProberLimite :
        (ProberRanFreely /\ ContiguousTo(Tipo, N) /\ N < max_limite)
            => /\ Len(probes) <= 2 * Log2Floor(N) + 2
               /\ requests = Len(probes)
               /\ N = 3 => /\ ultimo = 3
                           /\ probes = <<1, 2, 4, 3>>
                           /\ Len(probes) <= 5

C10_Witness ==
    /\ ProberRanFreely
    /\ ContiguousTo(Tipo, 3)
    /\ max_limite > 3
    /\ ultimo = 3
    /\ probes = <<1, 2, 4, 3>>

(***************************************************************************)
(* C1: Budget conservation. In every reachable state of a run              *)
(* 0 <= Budget.used <= Budget.max.                                         *)
(***************************************************************************)
C1_UsedWithinMax == 0 <= budget.used /\ budget.used <= budget.max_requests

(***************************************************************************)
(* C7: exactly one budget unit is spent per network request, whatever the  *)
(* response and wherever the handler raises, and Budget.used changes       *)
(* nowhere else: Budget.used equals the number of requests issued.         *)
(***************************************************************************)
C7_OneUnitPerRequest == budget.used = requests

(***************************************************************************)
(* C8: every call of the Conditional Fetcher spends exactly one unit of    *)
(* budget, regardless of its outcome, the call for the second variant of a *)
(* number included.                                                        *)
(***************************************************************************)
C8_FetcherSpendsOne == lastCall.kind = "fetch" => lastCall.spent = 1

(***************************************************************************)
(* C5: Idempotence within a run. A run never queues the same doc_id for    *)
(* upsert twice: docs_to_write holds each doc_id at most once.             *)
(***************************************************************************)
C5_NoDuplicateQueued ==
    \A i, j \in 1..Len(docs_to_write) :
        i # j => docs_to_write[i].doc_id # docs_to_write[j].doc_id

(***************************************************************************)
(* C3: Monotonicity of last_num_known.                                     *)
(***************************************************************************)
\* C3 as claimed: whatever happened to the state file, every save_state
\* writes a last_num_known that is at least the one written before.
C3_NeverDecreases ==
    [][\A t \in TipoSet :
          (stateFile' # stateFile /\ stateFile'.kind = "ok")
              => stateFile'.data[t].last_num_known >= saved[t]]_vars

\* C3, amended: as long as the state file written by the previous run is the
\* one the next run loads (it is neither lost nor unreadable), the persisted
\* last_num_known never decreases, also when the probe returns a smaller
\* number and when the run is cut short by the budget.
C3_NeverDecreasesWhileKept ==
    [][\A t \in TipoSet :
          (stateFile.kind = "ok" /\ stateFile'.kind = "ok")
              => stateFile'.data[t].last_num_known
                   >= stateFile.data[t].last_num_known]_vars

\* a second run probed a smaller number than the one persisted, and saved
C3_Witness ==
    /\ pc = "report"
    /\ runs = 2
    /\ stateFile.kind = "ok"
    /\ \E t \in TipoSet :
         /\ found[t] >= 0
         /\ found[t] < stateFile.data[t].last_num_known

(***************************************************************************)
(* Steps that are a call of the Conditional Fetcher                        *)
(***************************************************************************)
FetcherStep == lastCall'.seq # lastCall.seq /\ lastCall'.kind = "fetch"

\* the records queued for the index
Queued == Range(docs_to_write) \cup Range(writer)

\* every record of docs_ is stored under its doc_id, or a later one is
Flushed(ix, docs_) ==
    \A d \in docs_ :
        /\ has_doc(ix, d.doc_id)
        /\ ix[d.doc_id] \in {e \in docs_ : e.doc_id = d.doc_id}

(***************************************************************************)
(* C4: Change detection soundness. With a prior record in the index, a     *)
(* fetch whose extracted text is the stored one returns None and queues    *)
(* nothing; a fetch whose extracted text differs and is above the          *)
(* threshold returns a record with another content_hash, which is queued   *)
(* and is in the index when the run reports.                               *)
(***************************************************************************)
C4_ChangeDetection ==
    [][/\ (FetcherStep /\ lastCall'.has_prev /\ lastCall'.code = 200)
            => LET c == lastCall'
                   same == sha256_str(c.texto) = c.prev.content_hash
               IN /\ same => /\ ~c.some
                             /\ docs_to_write' = docs_to_write
                             /\ writer' = writer
                             /\ index' = index
                  /\ (~same /\ TextLen(c.texto) > c.minlen)
                        => /\ c.some
                           /\ c.d.doc_id = c.doc_id
                           /\ c.d.content_hash = sha256_str(c.texto)
                           /\ c.d.content_hash # c.prev.content_hash
                           /\ c.d \in Queued'
                           /\ c.d \in returned'
       /\ returned' # {} => Flushed(index', returned' \ Queued')
       /\ pc' = "report" => Queued' = {}]_vars

\* a changed text replaced the stored record, and an unchanged one did not
C4_Witness ==
    /\ lastCall.kind = "fetch"
    /\ lastCall.has_prev
    /\ lastCall.code = 200
    /\ lastCall.some
    /\ lastCall.d.content_hash # lastCall.prev.content_hash
    /\ pc = "report"
    /\ index[lastCall.doc_id] = lastCall.d

(***************************************************************************)
(* C9: Not-modified handling. A fetch for a doc_id whose stored record has *)
(* a non-empty etag (last_modified) sends it as If-None-Match              *)
(* (If-Modified-Since); on a 304 the fetcher returns None, queues and      *)
(* writes nothing, and Budget.used grows by exactly 1.                     *)
(***************************************************************************)
C9_NotModified ==
    [][FetcherStep =>
         LET c == lastCall'
         IN /\ (c.issued /\ c.has_prev)
                 => /\ c.sent.inm = c.prev.etag
                    /\ c.sent.ims = c.prev.last_modified
            /\ c.code = 304
                 => /\ c.has_prev
                    /\ c.prev.etag # NoHeader \/ c.prev.last_modified # NoHeader
                    /\ ~c.some
                    /\ docs_to_write' = docs_to_write
                    /\ writer' = writer
                    /\ index' = index
                    /\ budget'.used = budget.used + 1]_vars

C9_Witness ==
    /\ lastCall.kind = "fetch"
    /\ lastCall.code = 304
    /\ lastCall.prev.etag # NoHeader
    /\ lastCall.sent.inm = lastCall.prev.etag
    /\ lastCall.spent = 1

(***************************************************************************)
(* C6: Partial work is persisted on budget exhaustion. Once the budget is  *)
(* exhausted no request is issued; when run_update returns with the budget *)
(* exhausted, every record the fetcher returned is in the index and the    *)
(* state file holds the state as updated so far.                           *)
(***************************************************************************)
C6_PartialWorkPersisted ==
    [][/\ ~ok(budget) => (requests' = requests \/ requests' = 0)
       /\ (pc # "report" /\ pc' = "report" /\ ~ok(budget'))
            => /\ Flushed(index', returned')
               /\ Queued' = {}
               /\ stateFile' = [kind |-> "ok", data |-> state']
               /\ \A t \in TipoSet :
                    /\ found'[t] >= 0
                         => /\ stateFile'.data[t].last_num_known >= found'[t]
                            /\ stateFile'.data[t].last_probe_at = now
                    /\ (\E i \in 1..(pairIdx' - 1) : tipos[i] = t)
                         => stateFile'.data[t].last_checked_at = now]_vars

\* a run was cut short after the fetcher returned a record, and reported
C6_Witness ==
    /\ pc = "report"
    /\ ~ok(budget)
    /\ warned
    /\ returned # {}
    /\ pairIdx <= Len(tipos)
    /\ stateFile.kind = "ok"
    /\ \E t \in TipoSet : stateFile.data[t].last_num_known > 0

(***************************************************************************)
(* achar_ultimo_numero over any site: any set of existing numbers (gaps    *)
(* allowed), any ceiling, any budget                                       *)
(***************************************************************************)
InitProberGaps ==
    /\ pc = "probe_first"
    /\ now = 0
    /\ tipos = <<TYPES[1]>>
    /\ \E S \in SUBSET (1..MaxGapLimite) :
         remote = RemoteOf(1..MaxGapLimite,
                           [t \in TipoSet |-> IF t = TYPES[1] THEN S ELSE {}])
    /\ serverMode = "none"
    /\ stateFile = [kind |-> "absent", data |-> EmptyState]
    /\ index = <<>>
    /\ state = EmptyState
    /\ \E m \in 0..MaxGapLimite : budget = [max_requests |-> m, used |-> 0]
    /\ max_limite \in 1..MaxGapLimite
    /\ InitLocals
    /\ pairIdx = 1
    /\ runs = 1

SpecProberGaps == InitProberGaps /\ [][NextProber]_vars

\* the highest number of a set, 0 for the empty set
MaxOf(S) == IF S = {} THEN 0 ELSE CHOOSE k \in S : \A j \in S : j <= k

(***************************************************************************)
(* C11: Prober under exhaustion. For any existence pattern and any budget  *)
(* the prober ends (no number is probed twice and every probe is within    *)
(* the ceiling) and returns 0 or a number norma_existe answered true for   *)
(* in this invocation: the last one confirmed, also when the budget runs   *)
(* out mid-probe. Every call of norma_existe issued its request, so a      *)
(* probe not issued for lack of budget never counts as a number that does  *)
(* not exist.                                                              *)
(***************************************************************************)
C11_ProberUnderExhaustion ==
    /\ \A i, j \in 1..Len(probes) : i # j => probes[i] # probes[j]
    /\ \A i \in 1..Len(probes) : probes[i] \in 1..Max2(1, max_limite)
    /\ requests = Len(probes)
    /\ lastCall.kind = "exists" => lastCall.issued
    /\ \A k \in confirmed : k \in Range(probes) /\ Exists(Tipo, k)
    /\ pc = "probe_exp" => lo = MaxOf(confirmed)
    /\ pc = "probe_bin" => left = MaxOf(confirmed)
    /\ pc = "probe_ret" => /\ ultimo = MaxOf(confirmed)
                           /\ ultimo = 0 \/ ultimo \in confirmed

\* the budget ran out mid-probe on a site with a gap: the prober returned the
\* last number confirmed, although a higher one exists
C11_Witness ==
    /\ pc = "probe_ret"
    /\ ~ok(budget)
    /\ faults = 0
    /\ ultimo >= 2
    /\ ultimo \in confirmed
    /\ \E k \in 1..(ultimo - 1) : ~Exists(Tipo, k)
    /\ Exists(Tipo, ultimo + 1)

(***************************************************************************)
(* C12: Lost state file. A run that starts without a state file starts     *)
(* every pair with last_num_known = 0 and no timestamps, probes every pair *)
(* it processes, queues no record for a document of the index whose remote *)
(* text is the stored one and leaves that document as it is; when every    *)
(* remote document is in the index unchanged, the run leaves the index as  *)
(* it was.                                                                 *)
(***************************************************************************)
\* a run of run_update is under way and found no state file when it started
\* (the file is written at the end of a run only)
LostStateRun == pc \notin {"idle", "report"} /\ stateFile.kind # "ok"

\* the record stored for doc_id holds the text the site serves now
DocUnchanged(ix, doc_id) ==
    LET d == ix[doc_id]
    IN d.content_hash = sha256_str(ExtractText(Page(d.tipo_sigla, d.numero, d.versao)))

\* every document the site serves for the types of the run is in the index
AllIndexed(ix) ==
    \A t \in Range(tipos) : \A k \in DOMAIN remote[t] : \A v \in VersaoSet :
        TextLen(ExtractText(Page(t, k, v))) > MinLenApp
            => has_doc(ix, make_doc_id(t, k, Ano, v))

C12_LostStateFile ==
    [][/\ (pc = "idle" /\ pc' = "pair" /\ stateFile.kind # "ok")
            => \A t \in TipoSet :
                 /\ get_type_year_state(state', Ano, t).last_num_known = 0
                 /\ get_type_year_state(state', Ano, t).last_probe_at = NoneT
       /\ (LostStateRun /\ pc = "pair" /\ pc' \notin {"pair", "report"})
            => pc' = "probe_first" /\ last_known' = 0
       /\ (LostStateRun /\ pc = "probe_first")
            => requests' = requests + 1 /\ Len(probes') = 1
       /\ (LostStateRun /\ FetcherStep /\ has_doc(index, lastCall'.doc_id)
                        /\ DocUnchanged(index, lastCall'.doc_id))
            => /\ ~lastCall'.some
               /\ docs_to_write' = docs_to_write
       /\ LostStateRun
            => \A id \in DOMAIN index :
                 DocUnchanged(index, id)
                    => has_doc(index', id) /\ index'[id] = index[id]
       /\ (LostStateRun /\ AllIndexed(index)
                        /\ \A id \in DOMAIN index : DocUnchanged(index, id))
            => index' = index]_vars

\* the second run lost the state file, probed again, fetched a document of
\* the index again and queued nothing
C12_Witness ==
    /\ LostStateRun
    /\ runs = 2
    /\ pc = "finish"
    /\ found[Tipo] >= 1
    /\ index # <<>>
    /\ AllIndexed(index)
    /\ \A id \in DOMAIN index : DocUnchanged(index, id)
    /\ lastCall.kind = "fetch"
    /\ lastCall.has_prev
    /\ lastCall.issued
    /\ ~lastCall.some
    /\ docs_to_write = <<>>

(***************************************************************************)
(* C13: Budget exhaustion is surfaced as partial completion. Whenever      *)
(* run_update ends with the budget exhausted and planned work unfinished   *)
(* (a pair not processed, or numbers of a processed pair not fetched for   *)
(* lack of budget), the exhaustion warning was emitted.                    *)
(***************************************************************************)
\* the run started from an empty index: all the index holds, it wrote
FromEmptyIndex == \A id \in DOMAIN index : index[id] \in returned

\* a document of 1..last_num_known of a processed pair is served by the site
\* and is not in the index, and no request of the run failed
NumbersLeft ==
    /\ faults = 0
    /\ FromEmptyIndex
    /\ \E i \in 1..Len(tipos) : \E v \in VersaoSet :
         /\ i < pairIdx
         /\ \E k \in 1..state[tipos[i]].last_num_known :
              /\ TextLen(ExtractText(Page(tipos[i], k, v))) > MinLenApp
              /\ ~has_doc(index, make_doc_id(tipos[i], k, Ano, v))

C13_ExhaustionSurfaced ==
    (pc = "report" /\ ~ok(budget) /\ (pairIdx <= Len(tipos) \/ NumbersLeft))
        => warned

(***************************************************************************)
(* C14: New-range start. The start_new of update_type_year is not above    *)
(* the smallest number of 1..last_num_known + 1 that is not represented in *)
(* the index for the pair, so the backfill loop reaches every number of    *)
(* 1..last_num_known that is missing from the index.                       *)
(***************************************************************************)
\* the index holds a variant of number k of the pair
Represented(ix, tipo, k) ==
    \E v \in VersaoSet : has_doc(ix, make_doc_id(tipo, k, Ano, v))

\* the smallest number of 1..lk + 1 that the index does not hold
SmallestMissing(ix, tipo, lk) ==
    CHOOSE m \in 1..(lk + 1) :
        /\ m = lk + 1 \/ ~Represented(ix, tipo, m)
        /\ \A j \in 1..(m - 1) : Represented(ix, tipo, j)

C14_StartNewReachesMissing ==
    [][(pc = "plan" /\ pc' = "backfill")
          => numero' <= SmallestMissing(index, Tipo, last_known)]_vars

(***************************************************************************)
(* C15: Counters reflect only completed work. Every increment of new,      *)
(* updated or skipped in the backfill phase comes with a network request   *)
(* of the Conditional Fetcher, so the sum of the three never exceeds the   *)
(* requests of the phase.                                                  *)
(***************************************************************************)
Fetched(c) == c.new + c.updated + c.skipped

C15_CountersAreRequests ==
    [][(pc = "backfill" /\ Fetched(counters') > Fetched(counters))
          => /\ Fetched(counters') = Fetched(counters) + 1
             /\ requests' = requests + 1
             /\ lastCall'.issued]_vars

(***************************************************************************)
(* save_state and load_state step by step: a program saves its state over  *)
(* data/state.json, it may be killed on the way, and the next run loads    *)
(* the file and reads a pair from it                                       *)
(***************************************************************************)
\* open(path, "w") leaves an empty file, which json.load rejects
Truncated == [kind |-> "partial", data |-> EmptyState]

\* kinds of content data/state.json may have when a run finds it: no file,
\* the mapping a run saved, bytes that are no JSON (or cannot be read), an
\* empty file, a JSON value that is no mapping, a mapping whose "years" is
\* no mapping
WrongShapes == {"notmapping", "badyears"}
Unloadable == {"absent", "corrupt", "partial"}

\* states a run may save: progress of the first type
SaveStates ==
    {[EmptyState EXCEPT ![TYPES[1]].last_num_known = k,
                        ![TYPES[1]].last_num_scanned = j] :
        k \in 0..MaxNum, j \in 0..MaxNum}

FileContents ==
    {[kind |-> k, data |-> EmptyState] : k \in Unloadable \cup WrongShapes}
        \cup {[kind |-> "ok", data |-> st] : st \in SaveStates}

\* the shape of the value json.load returns to load_state (lines 100-101)
LoadedShape(file) == IF file.kind \in WrongShapes THEN file.kind ELSE "mapping"

runVars == << now, remote, serverMode, index, budget, recheck_window,
              max_limite, tipos, pairIdx, ultimo, counters, totals, warned,
              docs_to_write, numero, versao, lo, hi, left, right, writer, n,
              miss, runs, faults, edits, requests, returned, probes,
              confirmed, found, saved, lastCall >>

InitState ==
    /\ pc = "st_start"
    /\ now = 0
    /\ tipos = <<TYPES[1]>>
    /\ remote = RemoteOf(1..MaxNum, [t \in TipoSet |-> {}])
    /\ serverMode = "none"
    /\ stateFile \in FileContents
    /\ index = <<>>
    /\ state \in SaveStates
    /\ budget = [max_requests |-> 0, used |-> 0]
    /\ max_limite = MaxLimite
    /\ InitLocals
    /\ pairIdx = 1
    /\ runs = 1

\* app.py save_state, lines 107-108: open(tmp, "w")
SaveStateOpenTmp ==
    /\ pc = "st_start"
    /\ prevFile' = stateFile
    /\ tmpFile' = Truncated
    /\ pc' = "save_tmp_open"
    /\ UNCHANGED << runVars, histVars, stateFile, state, last_known, stateShape >>

\* line 109: json.dump(state, f), and the file is closed
SaveStateDump ==
    /\ pc = "save_tmp_open"
    /\ tmpFile' = save_state(state)
    /\ pc' = "save_tmp_written"
    /\ UNCHANGED << runVars, histVars, stateFile, state, last_known, prevFile, stateShape >>

\* line 110: os.replace(tmp, STATE_PATH)
SaveStateReplace ==
    /\ pc = "save_tmp_written"
    /\ stateFile' = tmpFile
    /\ tmpFile' = NoFile
    /\ pc' = "save_done"
    /\ UNCHANGED << runVars, histVars, state, last_known, prevFile, stateShape >>

\* build_index.py save_state, line 293: open(STATE_PATH, "w")
IndexSaveStateOpen ==
    /\ pc = "st_start"
    /\ prevFile' = stateFile
    /\ stateFile' = Truncated
    /\ pc' = "isave_open"
    /\ UNCHANGED << runVars, histVars, state, last_known, tmpFile, stateShape >>

\* build_index.py line 294: json.dump(state, f), and the file is closed
IndexSaveStateDump ==
    /\ pc = "isave_open"
    /\ stateFile' = save_state(state)
    /\ pc' = "isave_done"
    /\ UNCHANGED << runVars, histVars, state, last_known, tmpFile, prevFile, stateShape >>

\* the process is killed inside save_state
Crash ==
    /\ \/ pc \in {"save_tmp_open", "save_tmp_written"} /\ pc' = "save_crashed"
       \/ pc = "isave_open" /\ pc' = "isave_crashed"
    /\ UNCHANGED << runVars, histVars, stateFile, state, last_known, fileVars >>

\* the next run: load_state, lines 95-103
LoadState ==
    /\ pc \in {"st_start", "save_done", "save_crashed", "isave_done",
               "isave_crashed"}
    /\ state' = load_state(stateFile)
    /\ stateShape' = LoadedShape(stateFile)
    /\ pc' = "st_loaded"
    /\ UNCHANGED << runVars, histVars, stateFile, last_known, tmpFile, prevFile >>

\* get_type_year_state (lines 112-124) and line 356: setdefault raises
\* AttributeError on a value that is no mapping
GetTypeYearState ==
    /\ pc = "st_loaded"
    /\ IF stateShape = "mapping"
       THEN /\ last_known' = get_type_year_state(state, Ano, Tipo).last_num_known
            /\ pc' = "st_got"
       ELSE /\ pc' = "st_raised"
            /\ UNCHANGED last_known
    /\ UNCHANGED << runVars, histVars, stateFile, state, fileVars >>

NextState ==
    \/ SaveStateOpenTmp
    \/ SaveStateDump
    \/ SaveStateReplace
    \/ IndexSaveStateOpen
    \/ IndexSaveStateDump
    \/ Crash
    \/ LoadState
    \/ GetTypeYearState

SpecState == InitState /\ [][NextState]_vars

(***************************************************************************)
(* C16: Atomic state write of app.py. At every step of save_state, and     *)
(* when the process is killed at any of them, data/state.json holds its    *)
(* complete previous content or the complete new state, and the load_state *)
(* that follows reads one of the two.                                      *)
(***************************************************************************)
C16_AtomicSaveApp ==
    [][/\ pc' \in {"save_tmp_open", "save_tmp_written", "save_crashed", "save_done"}
            => /\ stateFile' = prevFile' \/ stateFile' = [kind |-> "ok", data |-> state']
               /\ pc' = "save_done"
                    => stateFile' = [kind |-> "ok", data |-> state'] /\ tmpFile' = NoFile
       /\ (pc \in {"save_crashed", "save_done"} /\ pc' = "st_loaded")
            => /\ state' = load_state(prevFile) \/ state' = state
               /\ stateShape' = LoadedShape(prevFile) \/ stateShape' = "mapping"]_vars

\* the process was killed after the temporary file was written and before it
\* was renamed: data/state.json is the previous file
C16_Witness ==
    /\ pc = "save_crashed"
    /\ tmpFile = [kind |-> "ok", data |-> state]
    /\ stateFile = prevFile
    /\ prevFile.kind = "ok"
    /\ prevFile.data # state

(***************************************************************************)
(* C17: Atomic state write of build_index.py. When the process is killed   *)
(* at any step of save_state, data/state.json holds its complete previous  *)
(* content or the complete new state.                                      *)
(***************************************************************************)
C17_AtomicSaveIndex ==
    pc = "isave_crashed"
        => stateFile = prevFile \/ stateFile = [kind |-> "ok", data |-> state]

(***************************************************************************)
(* C18: Malformed persisted state is never fatal. Whatever data/state.json *)
(* holds, load_state followed by get_type_year_state does not raise, and   *)
(* for a file that is not the mapping a run saved the pair reads as the    *)
(* empty initial state.                                                    *)
(***************************************************************************)
C18_MalformedNeverFatal ==
    /\ pc # "st_raised"
    /\ (pc = "st_got" /\ stateFile.kind # "ok")
          => /\ get_type_year_state(state, Ano, Tipo) = EmptyTY
             /\ last_known = 0

(***************************************************************************)
(* C19: Transport errors are absorbed. When a request raises, norma_existe *)
(* answers false and fetch_and_build_doc returns None, nothing is queued,  *)
(* and the caller goes on as after any such answer: the prober as after a  *)
(* number that does not exist, the backfill and recheck loops with the     *)
(* next variant or number.                                                 *)
(***************************************************************************)
\* a call of the oracle or of the fetcher whose request raised
TransportError ==
    /\ lastCall'.seq # lastCall.seq
    /\ faults' = faults + 1
    /\ lastCall'.code # 500

C19_TransportErrorsAbsorbed ==
    [][TransportError =>
         /\ lastCall'.issued
         /\ ~lastCall'.some
         /\ docs_to_write' = docs_to_write
         /\ returned' = returned
         /\ pc = "probe_first" => pc' = "probe_ret" /\ ultimo' = 0
         /\ pc = "probe_exp" => pc' = "probe_bin" /\ left' = lo
         /\ pc = "probe_bin" => pc' = "probe_bin" /\ left' = left
         /\ pc \in {"backfill", "recheck"}
              => /\ pc' = pc
                 /\ numero' = NextNumero
                 /\ versao' = NextVersao
                 /\ counters'.new = counters.new
                 /\ counters'.updated = counters.updated]_vars

\* the probe of the first type raised, and the run went on to the second
\* type, whose document the fetcher returned
C19_Witness ==
    /\ faults = 1
    /\ pairIdx = 2
    /\ found[tipos[1]] = 0
    /\ Exists(tipos[1], 1)
    /\ lastCall.kind = "fetch"
    /\ lastCall.some
    /\ lastCall.d.tipo_sigla = tipos[2]

(***************************************************************************)
(* update_type_year over any persisted pair: any last_num_known, any       *)
(* last_probe_at (absent, unparseable, or a day up to MaxNow), any day     *)
(***************************************************************************)
ProbeTimes == {NoneT, BadT} \cup (0..MaxNow)

InitRefresh ==
    /\ pc = "idle"
    /\ now \in 0..MaxNow
    /\ tipos = <<TYPES[1]>>
    /\ \E S \in SUBSET (1..MaxNum) :
         remote = RemoteOf(1..MaxNum,
                           [t \in TipoSet |-> IF t = TYPES[1] THEN S ELSE {}])
    /\ serverMode = "none"
    /\ \E k \in 0..MaxNum, a \in ProbeTimes :
         stateFile = save_state([EmptyState EXCEPT
                                    ![TYPES[1]].last_num_known = k,
                                    ![TYPES[1]].last_probe_at = a])
    /\ state = EmptyState
    /\ index = <<>>
    /\ budget = [max_requests |-> 0, used |-> 0]
    /\ max_limite = MaxLimite
    /\ InitLocals
    /\ pairIdx = 0
    /\ runs = MaxRuns - 1

SpecRefresh == InitRefresh /\ [][RunUpdateStep]_vars

\* the pair is known and was probed less than ProbeRefreshDays days before t
FreshlyProbed(ty, t) ==
    /\ ty.last_num_known > 0
    /\ ty.last_probe_at \notin {NoneT, BadT}
    /\ t - ty.last_probe_at < ProbeRefreshDays

\* nothing is known of the pair, or its probe is missing, unreadable or old
ProbeDue(ty, t) ==
    \/ ty.last_num_known = 0
    \/ ty.last_probe_at \in {NoneT, BadT}
    \/ t - ty.last_probe_at > ProbeRefreshDays

(***************************************************************************)
(* C20: Probe-refresh policy. update_type_year invokes the Prober, budget  *)
(* permitting, when last_num_known is 0, when last_probe_at is absent or   *)
(* unparseable, or when it is more than 7 days old; for a pair with        *)
(* last_num_known > 0 probed less than 7 days ago it does not invoke the   *)
(* Prober and no existence probe is issued.                                *)
(***************************************************************************)
C20_ProbeRefreshPolicy ==
    [][/\ (pc = "pair" /\ pc' \notin {"pair", "report"})
            => /\ (ProbeDue(state[Tipo], now) /\ ok(budget)) => pc' = "probe_first"
               /\ FreshlyProbed(state[Tipo], now) => pc' = "plan"
       /\ (lastCall'.seq # lastCall.seq /\ lastCall'.kind = "exists")
            => ~FreshlyProbed(state[Tipo], now)
       /\ (pc' = "finish" /\ counters'.probed = 0)
            => probes' = <<>> /\ found'[Tipo] = -1]_vars

\* a known pair probed a few days ago was updated with requests and without
\* any probe
C20_Witness ==
    /\ pc = "finish"
    /\ requests > 0
    /\ probes = <<>>
    /\ counters.probed = 0
    /\ found[Tipo] = -1
    /\ state[Tipo].last_num_known > 0
    /\ state[Tipo].last_probe_at \in 0..MaxNow
    /\ now - state[Tipo].last_probe_at = ProbeRefreshDays - 1

(***************************************************************************)
(* Runs of update_type_year with any recheck_window, some of them with a   *)
(* budget that covers the probe, the backfill and the recheck              *)
(***************************************************************************)
WideRun ==
    \E rw \in 0..MaxWindow : StartRunUpdate(MaxRecheckRequests, rw)

NextRecheck == WideRun \/ RunUpdateStep

SpecRecheck == Init /\ [][NextRecheck]_vars

\* the numbers the recheck phase is to revalidate
RecheckRange(L, w) ==
    IF w > 0 THEN {k \in 1..L : k >= L - w + 1} ELSE {}

(***************************************************************************)
(* C21: Recheck window. With sufficient budget and recheck_window = w > 0, *)
(* the recheck phase invokes the Conditional Fetcher for every number of   *)
(* max(1, L-w+1)..L (L = last_num_known) and both variants, in order,      *)
(* whether or not the number is indexed, and for no number outside that    *)
(* range; with w = 0 it invokes it for none.                               *)
(***************************************************************************)
C21_RecheckWindow ==
    [][/\ (pc = "recheck_plan" /\ last_known > 0 /\ ok(budget))
            => IF RecheckRange(last_known, recheck_window) = {}
               THEN pc' = "finish" /\ lastCall' = lastCall
               ELSE /\ pc' = "recheck"
                    /\ versao' = 1
                    /\ numero' \in RecheckRange(last_known, recheck_window)
                    /\ \A k \in RecheckRange(last_known, recheck_window) :
                          numero' <= k
       /\ (pc = "recheck" /\ pc' = "recheck")
            => /\ last_known = state[Tipo].last_num_known
               /\ numero \in RecheckRange(last_known, recheck_window)
               /\ lastCall'.seq = lastCall.seq + 1
               /\ lastCall'.kind = "fetch"
               /\ lastCall'.doc_id =
                     make_doc_id(Tipo, numero, Ano, VERSIONS[versao])
               /\ lastCall'.has_prev = has_doc(index, lastCall'.doc_id)
               /\ IF versao < Len(VERSIONS)
                  THEN numero' = numero /\ versao' = versao + 1
                  ELSE numero' = numero + 1 /\ versao' = 1
       /\ (pc = "recheck" /\ pc' = "finish" /\ ok(budget))
            => numero = last_known + 1 /\ versao = 1
       /\ (pc # "recheck" /\ pc' = "recheck") => pc = "recheck_plan"]_vars

\* a second run rechecked numbers 1 and 2, both indexed, in both variants,
\* with a window larger than last_num_known and budget to spare
C21_Witness ==
    /\ pc = "finish"
    /\ runs = 2
    /\ ok(budget)
    /\ recheck_window = MaxWindow
    /\ last_known = 2
    /\ counters.probed = 0
    /\ requests = 2 * Len(VERSIONS)
    /\ lastCall.kind = "fetch"
    /\ lastCall.doc_id = make_doc_id(Tipo, 2, Ano, "Consolidado")
    /\ lastCall.has_prev
    /\ has_doc(index, make_doc_id(Tipo, 1, Ano, "Original"))

(***************************************************************************)
(* make_doc_id of both programs over the configured tuples                 *)
(***************************************************************************)
\* type codes of app.py TYPES, and the entries of the TYPES environment
\* variable of build_index.py, which the configuration upper-cases
AppTypes == {"LEI", "DEC", "LCP"}
EnvTypes == {"lei", "DEC", "Lcp"}
IndexTypes == {Upper(e) : e \in EnvTypes}
DocNums == {1, 2, 12}
DocYears == {1835, 2020}

Derivation(prog, t, k, a, v, id) ==
    [prog |-> prog, tipo |-> t, numero |-> k, ano |-> a, versao |-> v,
     doc_id |-> id]

InitDocId ==
    /\ pc = "doc_id"
    /\ now = 0
    /\ tipos = TYPES
    /\ remote = RemoteOf(1..MaxNum, [t \in TipoSet |-> {}])
    /\ serverMode = "none"
    /\ stateFile = NoFile
    /\ index = <<>>
    /\ state = EmptyState
    /\ budget = [max_requests |-> 0, used |-> 0]
    /\ max_limite = MaxLimite
    /\ InitLocals
    /\ pairIdx = 1
    /\ runs = 1

\* app.py derives the doc_id of a tuple
DeriveApp ==
    /\ pc = "doc_id"
    /\ Cardinality(derived) < MaxDerived
    /\ \E t \in AppTypes, k \in DocNums, a \in DocYears, v \in VersaoSet :
         derived' = derived \cup
                      {Derivation("app", t, k, a, v, make_doc_id(t, k, a, v))}
    /\ UNCHANGED << runVars, pc, stateFile, state, last_known, fileVars,
                    cutShort >>

\* build_index.py derives the doc_id of a tuple
DeriveIndex ==
    /\ pc = "doc_id"
    /\ Cardinality(derived) < MaxDerived
    /\ \E t \in IndexTypes, k \in DocNums, a \in DocYears, v \in VersaoSet :
         derived' = derived \cup
                      {Derivation("index", t, k, a, v,
                                  make_doc_id_index(t, k, a, v))}
    /\ UNCHANGED << runVars, pc, stateFile, state, last_known, fileVars,
                    cutShort >>

NextDocId == DeriveApp \/ DeriveIndex

SpecDocId == InitDocId /\ [][NextDocId]_vars

SameTuple(x, y) ==
    /\ x.tipo = y.tipo
    /\ x.numero = y.numero
    /\ x.ano = y.ano
    /\ x.versao = y.versao

(***************************************************************************)
(* C22: doc_id is deterministic and collision-free. Over the configured    *)
(* type codes, positive numbers, years and the variants Original and       *)
(* Consolidado, two derivations give the same doc_id exactly when their    *)
(* tuples are the same, whichever of app.py and build_index.py derived     *)
(* them.                                                                   *)
(***************************************************************************)
C22_DocIdInjective ==
    \A x, y \in derived : SameTuple(x, y) <=> x.doc_id = y.doc_id

\* both programs derived the doc_id of one tuple
C22_Witness ==
    \E x, y \in derived :
        /\ x.prog = "app"
        /\ y.prog = "index"
        /\ SameTuple(x, y)
        /\ x.versao = "Consolidado"
        /\ x.doc_id = "LCP_12_1835_cons"
        /\ y.doc_id = x.doc_id

(***************************************************************************)
(* C23: Re-entrancy of the gap-tolerant scan. main advances                *)
(* last_num_scanned to n only once a network fetch has been issued for     *)
(* every configured variant of n, the last of them included, so that a     *)
(* later run, resuming at last_num_scanned + 1, leaves no variant of n     *)
(* unfetched.                                                              *)
(***************************************************************************)
C23_ScannedOnceFetched ==
    [][(pc = "bi_fetch" /\ state'[Tipo].last_num_scanned # state[Tipo].last_num_scanned)
          => /\ state'[Tipo].last_num_scanned = n
             /\ versao > Len(VERSIONS)
             /\ lastCall.kind = "fetch"
             /\ lastCall.issued
             /\ lastCall.doc_id =
                   make_doc_id_index(Tipo, n, Ano, VERSIONS[Len(VERSIONS)])]_vars

(***************************************************************************)
(* C24: A truncated discovery is retried. After a prober invocation that   *)
(* the budget cut short for a (type, year), the next update of that pair   *)
(* with budget available invokes the prober again, whatever the time       *)
(* elapsed: last_probe_at is refreshed only by a probe that ran to         *)
(* completion.                                                             *)
(***************************************************************************)
C24_TruncatedProbeRetried ==
    [][/\ (pc = "pair" /\ pc' \in {"probe_first", "plan"} /\ Tipo \in cutShort)
            => pc' = "probe_first"
       /\ (pc = "probe_ret" /\ pc' = "plan" /\ Tipo \in cutShort)
            => state'[Tipo].last_probe_at = state[Tipo].last_probe_at]_vars

\* the doc_ids update_type_year is about to upsert
UpsertedIds == {docs_to_write[i].doc_id : i \in 1..Len(docs_to_write)}

(***************************************************************************)
(* C25: Counter classification. When update_type_year reaches its upsert,  *)
(* every document to be written was counted exactly once, as new when the  *)
(* index held no record for its doc_id at the start of the run and as      *)
(* updated otherwise: new + updated is the number of distinct doc_ids      *)
(* upserted, and a run against an empty index reports updated = 0.         *)
(***************************************************************************)
C25_CounterClassification ==
    pc = "finish" =>
        /\ counters.new = Cardinality({id \in UpsertedIds : ~has_doc(index, id)})
        /\ counters.updated = Cardinality({id \in UpsertedIds : has_doc(index, id)})
        /\ counters.new + counters.updated = Cardinality(UpsertedIds)
        /\ index = <<>> => counters.updated = 0

(***************************************************************************)
(* C26: Termination of the gap-tolerant scan. Every iteration of the scan  *)
(* loop of main issues an existence probe that spends one budget unit, and *)
(* the loop of a pair ends only after MISS_STREAK_STOP consecutive misses  *)
(* or with the budget exhausted.                                           *)
(***************************************************************************)
C26_ScanIterationSpendsOne ==
    [][/\ (pc = "bi_scan" /\ lastCall'.seq # lastCall.seq)
            => /\ lastCall'.kind = "exists"
               /\ lastCall'.issued
               /\ lastCall'.spent = 1
               /\ budget'.used = budget.used + 1
       /\ (pc = "bi_scan" /\ pc' = "bi_tipo")
            => miss >= MissStreakStop \/ ~ok(budget)]_vars

(***************************************************************************)
(* build_index.py main over one type whose numbers 1..MaxScanNum exist or  *)
(* not in any pattern, run after run, with any budget                      *)
(***************************************************************************)
InitScan ==
    /\ pc = "idle"
    /\ now = 0
    /\ tipos = <<TYPES[1]>>
    /\ \E S \in SUBSET (1..MaxScanNum) :
         remote = RemoteOf(1..MaxScanNum,
                           [t \in TipoSet |-> IF t = TYPES[1] THEN S ELSE {}])
    /\ serverMode = "none"
    /\ stateFile = NoFile
    /\ index = <<>>
    /\ state = EmptyState
    /\ budget = [max_requests |-> 0, used |-> 0]
    /\ max_limite = MaxLimite
    /\ InitLocals
    /\ pairIdx = 0
    /\ runs = 0

NextScan ==
    \/ \E m \in 0..MaxScanRequests : StartMain(m)
    \/ MainBeginPair
    \/ MainScanStep
    \/ MainFetchDoc
    \/ MainFetchEnd
    \/ MainScanEnd
    \/ MainCommit
    \/ Report

SpecScan == InitScan /\ [][NextScan]_vars

\* the number has a page that pagina_tem_texto accepts
ExistsIndex(tipo, k) ==
    TextLen(ExtractText(Page(tipo, k, "Original"))) > MinLenIndex

\* last_num_scanned of the pair when the run began: main writes the state
\* file only at its end
ScanStart == load_state(stateFile)[Tipo].last_num_scanned

\* no MISS_STREAK_STOP consecutive missing numbers between from_ and k
NoGapRun(tipo, from_, k) ==
    ~ \E j \in (from_ + 1)..(k - MissStreakStop) :
          \A i \in j..(j + MissStreakStop - 1) : ~ExistsIndex(tipo, i)

\* the existing numbers beyond ScanStart that no run of missing numbers hides
InReach(tipo) ==
    {k \in DOMAIN remote[tipo] :
        k > ScanStart /\ ExistsIndex(tipo, k) /\ NoGapRun(tipo, ScanStart, k)}

\* the scan goes through the numbers one by one from ScanStart + 1, and
\* last_num_scanned is the highest number found to exist
ScanInOrder ==
    /\ (pc = "bi_tipo" /\ pc' = "bi_scan")
         => /\ state[Tipo].last_num_scanned = ScanStart
            /\ n' = ScanStart + 1
    /\ (pc = "bi_scan" /\ lastCall'.seq # lastCall.seq)
         => /\ lastCall'.kind = "exists"
            /\ lastCall'.doc_id = make_doc_id_index(Tipo, n, Ano, "Original")
            /\ IF lastCall'.some THEN n' = n /\ pc' = "bi_fetch"
                                 ELSE n' = n + 1 /\ miss' = miss + 1
    /\ (pc = "bi_fetch" /\ pc' = "bi_scan")
         => /\ ExistsIndex(Tipo, n)
            /\ state'[Tipo].last_num_scanned = n
            /\ n' = n + 1
            /\ miss' = 0
    /\ (pc = "bi_scan" /\ pc' = "bi_tipo")
         => /\ state[Tipo].last_num_scanned >= ScanStart
            /\ state[Tipo].last_num_scanned = n - 1 - miss
            /\ ok(budget) => miss = MissStreakStop

====
